---------------------------- MODULE Spec2Model ----------------------------
(***************************************************************************)
(* A model of photo_tool: the font locator (photo_tool/utils.py), the      *)
(* watermark compositor's font auto-sizing and resource handling, the job  *)
(* runner and the single/batch driver (photo_tool/watermark.py).           *)
(*                                                                         *)
(* Strings that the code takes apart (the font family list, file names)    *)
(* are sequences: a family list is a sequence of one-character strings, a  *)
(* file path is the sequence of its dot-separated components.              *)
(***************************************************************************)
EXTENDS Integers, Sequences, FiniteSets, TLC

VARIABLES
    platform,     \* sys.platform
    fontfs,       \* the font root directories: <<listing of root 1, listing of root 2>>
    family,       \* get_font's argument (font-locator specification)
    fontResult,   \* what get_font returned or raised (font-locator specification)
    szImage,      \* input_image.size, <<width, height>> (auto-sizing specification)
    szFont,       \* the font: candidate size |-> measured height of the calibration string
    szFs,         \* the two font_size values compared, in units of 1/FsDen
    szSize,       \* each run's loop variable `size`
    szPc,         \* each run's position: "loop", "done" or "unbounded"
    fs,           \* the working directory: path |-> file content
    fs0,          \* fs when the current invocation of main began
    pc,           \* main's position: "idle", "loop", "done" or "failed"
    args,         \* the command line of the current invocation
    files,        \* batch_files after the '.' expansion
    idx,          \* position of the batch loop in files
    err,          \* the exception that ended main, "" when none
    calls,        \* this invocation's calls of run_job, with their results
    writes,       \* the files this invocation opened for writing
    lookups,      \* the family strings this invocation passed to get_font
    single,       \* per input file, the last successful single-mode run
    runs          \* invocations of main so far

fontVars == <<platform, fontfs, family, fontResult>>
sizeVars == <<szImage, szFont, szFs, szSize, szPc>>
mainVars == <<fs, fs0, pc, args, files, idx, err, calls, writes, lookups, single, runs>>
vars == <<fontVars, sizeVars, mainVars>>

----------------------------------------------------------------------------
(* Bounds *)

MaxFamilyLen == 3     \* characters in a font family list

----------------------------------------------------------------------------
(* Generic helpers *)

NoPath == <<>>

RECURSIVE SeqToSet(_)
SeqToSet(s) == IF s = <<>> THEN {} ELSE {Head(s)} \cup SeqToSet(Tail(s))

SeqsUpTo(S, n) == UNION {[1..k -> S] : k \in 0..n}

----------------------------------------------------------------------------
(* utils.py: get_font *)

\* str.split(','): the segments between the commas, empty ones included.
RECURSIVE SplitComma(_, _)
SplitComma(s, cur) ==
    IF s = <<>> THEN <<cur>>
    ELSE IF Head(s) = "," THEN <<cur>> \o SplitComma(Tail(s), <<>>)
    ELSE SplitComma(Tail(s), Append(cur, Head(s)))

\* str.strip(): leading and trailing white space removed.
RECURSIVE LStrip(_)
LStrip(s) == IF s # <<>> /\ Head(s) = " " THEN LStrip(Tail(s)) ELSE s

RECURSIVE RStrip(_)
RStrip(s) ==
    IF s # <<>> /\ s[Len(s)] = " " THEN RStrip(SubSeq(s, 1, Len(s) - 1)) ELSE s

Strip(s) == LStrip(RStrip(s))

\* [n.strip() for n in family.split(',') if n.strip()]
RECURSIVE StripNonEmpty(_)
StripNonEmpty(segs) ==
    IF segs = <<>> THEN <<>>
    ELSE IF Strip(Head(segs)) # <<>>
         THEN <<Strip(Head(segs))>> \o StripNonEmpty(Tail(segs))
         ELSE StripNonEmpty(Tail(segs))

search_names(fam) == StripNonEmpty(SplitComma(fam, <<>>))

search_exts == <<".otf", ".ttf", ".ttc">>

\* The two darwin roots: '/System/Library/Fonts', '~/Library/Fonts'.
search_dirs == <<"System", "User">>

\* A directory is its listing (os.listdir order): a sequence of entries
\* [name, kind, children]; a name is <<stem, extension>>, the file name being
\* their concatenation.
IsFile(listing, name) ==
    \E i \in 1..Len(listing) : listing[i].name = name /\ listing[i].kind = "file"

\* The first extension, in search_exts order, for which <search_name><ext>
\* is a regular file of the directory; 0 when there is none.
FirstExt(listing, search_name) ==
    LET hits == {e \in 1..Len(search_exts) :
                    IsFile(listing, <<search_name, search_exts[e]>>)}
    IN IF hits = {} THEN 0 ELSE CHOOSE e \in hits : \A f \in hits : e <= f

\* traverse_dir: the directory's own files first, then each subdirectory in
\* listing order, depth first; NoPath is Python's None.
RECURSIVE traverse_dir(_, _, _)
RECURSIVE TraverseSubdirs(_, _, _, _)
traverse_dir(listing, dirPath, search_name) ==
    LET e == FirstExt(listing, search_name)
    IN IF e # 0
       THEN Append(dirPath, <<search_name, search_exts[e]>>)
       ELSE TraverseSubdirs(listing, 1, dirPath, search_name)

TraverseSubdirs(listing, i, dirPath, search_name) ==
    IF i > Len(listing) THEN NoPath
    ELSE IF listing[i].kind = "dir"
         THEN LET r == traverse_dir(listing[i].children,
                                    Append(dirPath, listing[i].name), search_name)
              IN IF r # NoPath THEN r
                 ELSE TraverseSubdirs(listing, i + 1, dirPath, search_name)
         ELSE TraverseSubdirs(listing, i + 1, dirPath, search_name)

\* The inner loop: one family name against the roots, in order.
RECURSIVE SearchRoots(_, _, _)
SearchRoots(roots, d, search_name) ==
    IF d > Len(search_dirs) THEN NoPath
    ELSE LET r == traverse_dir(roots[d], <<search_dirs[d]>>, search_name)
         IN IF r # NoPath THEN r ELSE SearchRoots(roots, d + 1, search_name)

\* The outer loop: the family names, in the order listed.
RECURSIVE SearchNames(_, _, _)
SearchNames(roots, names, n) ==
    IF n > Len(names) THEN NoPath
    ELSE LET r == SearchRoots(roots, 1, names[n])
         IN IF r # NoPath THEN r ELSE SearchNames(roots, names, n + 1)

\* Directory-major order: each root against every family name (the order the
\* commented-out line of traverse_dir would give).
RECURSIVE SearchNamesInRoot(_, _, _, _)
SearchNamesInRoot(roots, d, names, n) ==
    IF n > Len(names) THEN NoPath
    ELSE LET r == traverse_dir(roots[d], <<search_dirs[d]>>, names[n])
         IN IF r # NoPath THEN r ELSE SearchNamesInRoot(roots, d, names, n + 1)

RECURSIVE SearchDirsFirst(_, _, _)
SearchDirsFirst(roots, names, d) ==
    IF d > Len(search_dirs) THEN NoPath
    ELSE LET r == SearchNamesInRoot(roots, d, names, 1)
         IN IF r # NoPath THEN r ELSE SearchDirsFirst(roots, names, d + 1)

FontLookupDirsFirst(roots, names) == SearchDirsFirst(roots, names, 1)

FontLookup(roots, names) == SearchNames(roots, names, 1)

\* get_font: [status, path]; status is "ok" or the exception raised.
get_font(plat, roots, fam) ==
    IF plat # "darwin" THEN [status |-> "RuntimeError", path |-> NoPath]
    ELSE LET r == FontLookup(roots, search_names(fam))
         IN IF r # NoPath THEN [status |-> "ok", path |-> r]
            ELSE [status |-> "IOError", path |-> NoPath]

----------------------------------------------------------------------------
(* Font-locator specification: get_font on bounded inputs *)

FamilyChars == {"a", "b", ",", " "}

Families == SeqsUpTo(FamilyChars, MaxFamilyLen)

File(stem, ext) == [name |-> <<stem, ext>>, kind |-> "file", children |-> <<>>]

Dir(stem, ext, children) ==
    [name |-> <<stem, ext>>, kind |-> "dir", children |-> children]

\* Font directories: fonts at the top and below, a font of one family beside
\* or above another's, files that are no fonts, a directory named like a font.
SubListings ==
    { <<>>,
      <<File(<<"a">>, ".ttf")>>,
      <<File(<<"b">>, ".otf")>>,
      <<File(<<"a">>, ".txt"), Dir(<<"e">>, "", <<File(<<"b">>, ".ttc")>>)>> }

RootListings ==
    { <<>>,
      <<File(<<"a">>, ".ttc")>>,
      <<File(<<"b">>, ".ttf"), File(<<"b">>, ".otf")>>,
      <<File(<<"a", " ", "b">>, ".otf"), File(<<"a">>, ".json")>>,
      <<Dir(<<"a">>, ".ttf", <<>>), File(<<"b">>, ".ttc")>> }
    \cup { <<Dir(<<"d">>, "", s)>> : s \in SubListings }
    \cup { <<Dir(<<"d">>, "", s), File(<<"b">>, ".ttf")>> : s \in SubListings \ {<<>>} }
    \cup { <<Dir(<<"c">>, "", s), Dir(<<"d">>, "", t)>> :
              s \in SubListings \ {<<>>}, t \in SubListings \ {<<>>} }

Platforms == {"darwin", "linux"}

NoResult == [status |-> "none", path |-> NoPath]

----------------------------------------------------------------------------
(* watermark.py: add_watermark, the font auto-sizing loop (lines 51-61) *)

FsDen == 2            \* font_size is szFs / FsDen
MaxFontSize == 6      \* candidate font sizes modelled: 2, 4, .., MaxFontSize
MaxHeight == 3        \* measured heights modelled: 0..MaxHeight

FirstSize == 2
SizeStep == 2

Min(a, b) == IF a <= b THEN a ELSE b

\* line_height > min(*input_image.size) * 0.04 * font_size, with 0.04 = 1/25
\* and font_size = fsNum / FsDen, in exact arithmetic.
ExceedsInverted(line_height, size, fsNum) ==
    line_height * 25 * FsDen * fsNum > Min(size[1], size[2])

Exceeds(line_height, size, fsNum) ==
    line_height * 25 * FsDen > Min(size[1], size[2]) * fsNum

CandidateSizes == {s \in FirstSize..MaxFontSize : (s - FirstSize) % SizeStep = 0}

\* One iteration of `while True` for run r: measure, break or step.  The
\* source's loop has no upper limit; past the sizes modelled the run is
\* "unbounded".
SizeIter(r) ==
    /\ szPc[r] = "loop"
    /\ \A q \in 1..(r - 1) : szPc[q] # "loop"
    /\ IF Exceeds(szFont[szSize[r]], szImage, szFs[r])
       THEN /\ szPc' = [szPc EXCEPT ![r] = "done"]
            /\ UNCHANGED szSize
       ELSE IF szSize[r] + SizeStep > MaxFontSize
            THEN /\ szPc' = [szPc EXCEPT ![r] = "unbounded"]
                 /\ UNCHANGED szSize
            ELSE /\ szSize' = [szSize EXCEPT ![r] = szSize[r] + SizeStep]
                 /\ UNCHANGED szPc
    /\ UNCHANGED <<szImage, szFont, szFs>>

----------------------------------------------------------------------------
(* File paths and file contents *)

None == <<>>                   \* Python's None, for an absent option

A == <<"a", "jpg">>
V == <<"v", "MP4">>
N == <<"n", "txt">>
O == <<"o", "png">>
Dot == <<"", "">>              \* the path '.'

\* f'{input_file}.json'
Sidecar(p) == Append(p, "json")

\* os.path.join(temp_dir, 'watermark.png')
TempPng == <<"tmp/watermark", "png">>

\* str.lower() on the extensions that occur.
Lower(c) ==
    CASE c = "MP4" -> "mp4"
      [] c = "JPG" -> "jpg"
      [] c = "PNG" -> "png"
      [] OTHER -> c

\* os.path.splitext(p)[-1].lower(), without its dot: the last component,
\* unless only leading dots precede it.
input_ext(p) ==
    IF Len(p) > 1 /\ \E i \in 1..(Len(p) - 1) : p[i] # ""
    THEN Lower(p[Len(p)]) ELSE ""

image_exts == {"jpg", "jpeg", "png", "bmp"}
video_exts == {"avi", "m4a", "mkv", "mov", "mp4", "wmv"}

Names == {A, V, N, O}
AllPaths == Names \cup {Sidecar(p) : p \in Names}

Absent == [kind |-> "absent", src |-> <<>>, json |-> <<>>]
Orig(p) == [kind |-> "orig", src |-> p, json |-> <<>>]
Watermarked(p) == [kind |-> "watermarked", src |-> p, json |-> <<>>]
Partial(p) == [kind |-> "partial", src |-> p, json |-> <<>>]

\* os.path.isfile
Exists(fsys, p) == p \in DOMAIN fsys /\ fsys[p].kind # "absent"

\* Every order of the members of S.
RECURSIVE Orders(_)
Orders(S) ==
    IF S = {} THEN {<<>>}
    ELSE UNION {{<<x>> \o l : l \in Orders(S \ {x})} : x \in S}

\* os.listdir('.'): the entries of the directory, in arbitrary order.
Listings(fsys) == Orders({p \in DOMAIN fsys : Exists(fsys, p)})

----------------------------------------------------------------------------
(* The sidecar: json.dumps and json.load *)

StyleKeys == {"text", "position", "font_size", "opacity", "line_spacing",
              "shadow_offset", "shadow_blur_radius"}

NumKeys == {"font_size", "opacity", "line_spacing", "shadow_offset",
            "shadow_blur_radius", "quality"}

\* Insertion order of the dict main builds.
KeyOrder == <<"text", "position", "font_size", "opacity", "line_spacing",
              "shadow_offset", "shadow_blur_radius", "font_family",
              "output_file", "quality">>

\* json.dumps: the members in insertion order, a number as a JSON number, a
\* string as a JSON string.
Dumps(d) ==
    LET ks == SelectSeq(KeyOrder, LAMBDA k : k \in DOMAIN d)
    IN [i \in 1..Len(ks) |->
          IF ks[i] \in NumKeys
          THEN [key |-> ks[i], t |-> "num", s |-> <<>>, n |-> d[ks[i]]]
          ELSE [key |-> ks[i], t |-> "str", s |-> d[ks[i]], n |-> 0]]

\* json.load: the dict of the members.
Loads(j) ==
    [k \in {j[i].key : i \in 1..Len(j)} |->
        LET e == CHOOSE e \in {j[i] : i \in 1..Len(j)} : e.key = k
        IN IF e.t = "num" THEN e.n ELSE e.s]

PopKeeps(d, k) == d

\* dict.pop(k), the dict that remains.
Pop(d, k) == [x \in DOMAIN d \ {k} |-> d[x]]

SidecarFile(d) == [kind |-> "sidecar", src |-> <<>>, json |-> Dumps(d)]

\* '\n'.join(text)
RECURSIVE Join(_)
Join(lines) ==
    IF lines = <<>> THEN <<>>
    ELSE IF Len(lines) = 1 THEN <<lines[1]>>
    ELSE <<lines[1], "\n">> \o Join(Tail(lines))

----------------------------------------------------------------------------
(* watermark.py: add_watermark and make_shadow, the image objects they make *)

\* The outcomes of the external operations of one job: all succeed, or the
\* named one fails when it is reached: decoding or probing the input,
\* loading the font, blurring the shadow in make_shadow, Image.composite,
\* encoding the output.
Envs == {"ok", "decode_fail", "font_fail", "shadow_fail", "composite_fail",
         "encode_fail"}

Resources == {"input", "text_layer", "shadow", "watermark", "output"}

NoRes == [r \in Resources |-> "unopened"]

\* position.split()
Split(position) == SelectSeq(position, LAMBDA t : t # " ")

PositionOk(position) ==
    \A i \in 1..Len(Split(position)) :
        Split(position)[i] \in {"right", "left", "bottom", "top"}

\* add_watermark(input_image, font_file=font_file, **options): [status, res],
\* res being the image objects as the function exits.  An object is "open"
\* while a variable holds it, "closed" after close(), and "dropped" once no
\* variable holds it (it is left to the garbage collector).  close() is
\* called on the composed watermark layer alone (line 107), on the normal
\* path; the text layer (line 88) is rebound at line 98 and the shadow layer
\* (line 92) is a local that is never closed.  When the function raises, the
\* frame, and the objects its variables hold, stay with the exception.
add_watermark(options, im, env) ==
    IF ~(StyleKeys \subseteq DOMAIN options
         /\ DOMAIN options \subseteq StyleKeys \cup {"shadow_color"})
    THEN [status |-> "TypeError", res |-> im]
    ELSE IF ~PositionOk(options["position"])
    THEN [status |-> "ValueError", res |-> im]
    ELSE IF env = "font_fail"
    THEN [status |-> "FontError", res |-> im]
    ELSE IF env = "shadow_fail"
    THEN [status |-> "ShadowError",
          res |-> [im EXCEPT !["text_layer"] = "open", !["shadow"] = "open"]]
    ELSE IF env = "composite_fail"
    THEN [status |-> "CompositeError",
          res |-> [im EXCEPT !["text_layer"] = "dropped", !["shadow"] = "open",
                             !["watermark"] = "open"]]
    ELSE [status |-> "ok",
          res |-> [im EXCEPT !["text_layer"] = "dropped", !["shadow"] = "dropped",
                             !["watermark"] = "closed", !["output"] = "open"]]

----------------------------------------------------------------------------
(* watermark.py: run_job *)

\* The `finally` block: input_image and output_image are closed when set.
Finally(im) ==
    [r \in Resources |->
        IF r \in {"input", "output"} /\ im[r] = "open" THEN "closed" ELSE im[r]]

\* Image.save picks the encoder by the file extension and raises before it
\* opens the file when it knows none.
SaveFormatKnown(p) == input_ext(p) \in image_exts

\* ffmpeg picks the muxer by the file extension and fails before it opens
\* the file when it knows none.
FfmpegFormatKnown(p) == input_ext(p) \in image_exts \cup video_exts

Job(status, fsys, wr, im) ==
    [status |-> status, fs |-> fsys, writes |-> wr, res |-> Finally(im)]

\* The still-image branch, lines 118-121.  Image.save is not given
\* `overwrite`: it opens output_file for writing whether or not it exists.
ImageJob(fsys, input_file, output_file, options, overwrite, env) ==
    IF ~Exists(fsys, input_file) \/ env = "decode_fail"
    THEN Job("OpenError", fsys, <<>>, NoRes)
    ELSE
    LET aw == add_watermark(options, [NoRes EXCEPT !["input"] = "open"], env)
        wr == <<[path |-> output_file, kind |-> "output"]>>
    IN IF aw.status # "ok" THEN Job(aw.status, fsys, <<>>, aw.res)
       ELSE IF ~SaveFormatKnown(output_file)
       THEN Job("UnknownExtension", fsys, <<>>, aw.res)
       ELSE IF env = "encode_fail"
       THEN Job("SaveError", [fsys EXCEPT ![output_file] = Partial(input_file)],
                wr, aw.res)
       ELSE Job("ok", [fsys EXCEPT ![output_file] = Watermarked(input_file)],
                wr, aw.res)

\* The video branch, lines 125-141.  The watermark frame goes to a file in a
\* temporary directory, removed when the `with` block is left; ffmpeg runs
\* with overwrite_output=overwrite and, without it, refuses an existing
\* output file.
VideoJob(fsys, input_file, output_file, options, overwrite, env) ==
    IF ~Exists(fsys, input_file) \/ env = "decode_fail"
    THEN Job("ProbeError", fsys, <<>>, NoRes)
    ELSE
    LET aw == add_watermark(options, [NoRes EXCEPT !["input"] = "open"], env)
        tmp == <<[path |-> TempPng, kind |-> "temp"]>>
        wr == Append(tmp, [path |-> output_file, kind |-> "output"])
    IN IF aw.status # "ok" THEN Job(aw.status, fsys, <<>>, aw.res)
       ELSE IF ~FfmpegFormatKnown(output_file)
       THEN Job("FfmpegError", fsys, tmp, aw.res)
       ELSE IF Exists(fsys, output_file) /\ ~overwrite
       THEN Job("FfmpegError", fsys, tmp, aw.res)
       ELSE IF env = "encode_fail"
       THEN Job("FfmpegError", [fsys EXCEPT ![output_file] = Partial(input_file)],
                wr, aw.res)
       ELSE Job("ok", [fsys EXCEPT ![output_file] = Watermarked(input_file)],
                wr, aw.res)

\* run_job: [status, fs, writes, res]: "ok" or the exception raised, the
\* directory afterwards, the files opened for writing, the image objects.
run_job(fsys, input_file, output_file, font_file, quality, options, overwrite, env) ==
    IF input_ext(input_file) \in image_exts
    THEN ImageJob(fsys, input_file, output_file, options, overwrite, env)
    ELSE IF input_ext(input_file) \in video_exts
    THEN VideoJob(fsys, input_file, output_file, options, overwrite, env)
    ELSE Job("UnsupportedExtension", fsys, <<>>, NoRes)

----------------------------------------------------------------------------
(* watermark.py: main *)

MaxRuns == 2          \* invocations of main in one behaviour
MaxBatch == 3         \* trailing file arguments of one invocation

\* The options dict of lines 206-214.
Options(a) ==
    [k \in StyleKeys |->
        CASE k = "text" -> Join(a.text)
          [] k = "position" -> a.position
          [] k = "font_size" -> a.font_size
          [] k = "opacity" -> a.opacity
          [] k = "line_spacing" -> a.line_spacing
          [] k = "shadow_offset" -> a.shadow_offset
          [] k = "shadow_blur_radius" -> a.shadow_blur_radius]

\* A sidecar that records the resolved font file in place of the family.
SidecarDictResolved(options, font_family, font_file, output_file, quality) ==
    options @@ [k \in {"font_family", "output_file", "quality"} |->
                  CASE k = "font_family" -> font_file
                    [] k = "output_file" -> output_file
                    [] k = "quality" -> quality]

\* Lines 217-219: the options plus font_family, output_file and quality.
SidecarDict(options, font_family, font_file, output_file, quality) ==
    options @@ [k \in {"font_family", "output_file", "quality"} |->
                  CASE k = "font_family" -> font_family
                    [] k = "output_file" -> output_file
                    [] k = "quality" -> quality]

SingleConfigErrorLax(a) == a.text = <<>> /\ a.input_file = None /\ a.output_file = None

\* Line 195.
SingleConfigError(a) == a.text = <<>> \/ a.input_file = None \/ a.output_file = None

\* Line 174.
BatchConfigError(a) == a.text # <<>> \/ a.input_file # None \/ a.output_file # None

SameFileNever(input_file, output_file) == FALSE

\* Lines 190 and 200.
SameFile(input_file, output_file) == input_file = output_file

SidecarAlways(status) == TRUE

\* Lines 215-223: the sidecar is written once run_job has returned; an
\* exception of run_job leaves main before.
SidecarAfter(status) == status = "ok"

HasSidecarAlways(fsys, f) == TRUE

\* Line 181: os.path.isfile(meta_file)
HasSidecar(fsys, f) == Exists(fsys, Sidecar(f))

\* Lines 171-172.
Expand(batch, listing) == IF batch = <<Dot>> THEN listing ELSE batch

\* The loop body raised: it neither ran a job to its end nor skipped the file.
Raised(status) == status \notin {"ok", "skip"}

ContinueAlways(status) == TRUE

\* Lines 179-192: an exception raised in the loop body leaves the loop.
Continue(status) == ~Raised(status)

Call(input_file, output_file, font_file, quality, options, overwrite, job) ==
    [input |-> input_file, output |-> output_file, font |-> font_file,
     quality |-> quality, options |-> options, overwrite |-> overwrite,
     status |-> job.status, res |-> job.res]

Out(status, fsys, wr, cl, lk) ==
    [status |-> status, fs |-> fsys, writes |-> wr, calls |-> cl, lookups |-> lk]

\* The single-file branch, lines 195-223.
SingleMain(plat, roots, fsys, a, env) ==
    IF SingleConfigError(a) THEN Out("ValueError", fsys, <<>>, <<>>, <<>>)
    ELSE IF SameFile(a.input_file, a.output_file)
    THEN Out("SameFile", fsys, <<>>, <<>>, <<>>)
    ELSE
    LET font == get_font(plat, roots, a.font_family)
        lk == <<a.font_family>>
    IN IF font.status # "ok" THEN Out(font.status, fsys, <<>>, <<>>, lk)
       ELSE
       LET options == Options(a)
           job == run_job(fsys, a.input_file, a.output_file, font.path, a.quality,
                          options, FALSE, env)
           call == Call(a.input_file, a.output_file, font.path, a.quality,
                        options, FALSE, job)
           meta == Sidecar(a.input_file)
           cnt == SidecarFile(SidecarDict(options, a.font_family, font.path,
                                          a.output_file, a.quality))
       IN IF ~SidecarAfter(job.status)
          THEN Out(job.status, job.fs, job.writes, <<call>>, lk)
          ELSE Out(job.status, [job.fs EXCEPT ![meta] = cnt],
                   Append(job.writes, [path |-> meta, kind |-> "sidecar"]),
                   <<call>>, lk)

\* One iteration of the batch loop, lines 180-192, on the file f.
BatchIter(plat, roots, fsys, f, env) ==
    IF ~HasSidecar(fsys, f) THEN Out("skip", fsys, <<>>, <<>>, <<>>)
    ELSE IF Sidecar(f) \notin DOMAIN fsys \/ fsys[Sidecar(f)].kind # "sidecar"
    THEN Out("JSONDecodeError", fsys, <<>>, <<>>, <<>>)
    ELSE
    LET loaded == Loads(fsys[Sidecar(f)].json)
    IN IF "font_family" \notin DOMAIN loaded
       THEN Out("KeyError", fsys, <<>>, <<>>, <<>>)
       ELSE
       LET font == get_font(plat, roots, loaded["font_family"])
           lk == <<loaded["font_family"]>>
       IN IF font.status # "ok" THEN Out(font.status, fsys, <<>>, <<>>, lk)
          ELSE IF {"output_file", "quality"} \ DOMAIN loaded # {}
          THEN Out("KeyError", fsys, <<>>, <<>>, lk)
          ELSE
          LET output_file == loaded["output_file"]
              quality == loaded["quality"]
              options == Pop(Pop(Pop(loaded, "font_family"), "output_file"), "quality")
              job == run_job(fsys, f, output_file, font.path, quality, options,
                             TRUE, env)
          IN IF SameFile(f, output_file) THEN Out("SameFile", fsys, <<>>, <<>>, lk)
             ELSE Out(job.status, job.fs, job.writes,
                      <<Call(f, output_file, font.path, quality, options, TRUE, job)>>,
                      lk)

At(seq, k) == [i \in 1..Len(seq) |-> [at |-> k, v |-> seq[i]]]

NoSingle == [set |-> FALSE, family |-> <<>>, call |-> <<>>]

Terminal == pc = "idle"

\* An invocation without trailing arguments: the whole single-file branch.
Single(a, env) ==
    /\ Terminal
    /\ runs < MaxRuns
    /\ a.batch_files = <<>>
    /\ \E out \in {SingleMain(platform, fontfs, fs, a, env)} :
          /\ fs' = out.fs
          /\ pc' = IF out.status = "ok" THEN "done" ELSE "failed"
          /\ err' = IF out.status = "ok" THEN "" ELSE out.status
          /\ calls' = At(out.calls, 0)
          /\ writes' = At(out.writes, 0)
          /\ lookups' = out.lookups
          /\ single' = IF out.status = "ok"
                       THEN [single EXCEPT ![a.input_file] =
                                [set |-> TRUE, family |-> a.font_family,
                                 call |-> out.calls[1]]]
                       ELSE single
    /\ args' = a
    /\ fs0' = fs
    /\ files' = <<>>
    /\ idx' = 0
    /\ runs' = runs + 1
    /\ UNCHANGED <<fontVars, sizeVars>>

\* An invocation with trailing arguments, up to the loop: lines 170-177.
BatchEnter(a) ==
    /\ Terminal
    /\ runs < MaxRuns
    /\ a.batch_files # <<>>
    /\ \E listing \in (IF a.batch_files = <<Dot>> THEN Listings(fs) ELSE {<<>>}) :
          files' = Expand(a.batch_files, listing)
    /\ IF BatchConfigError(a)
       THEN pc' = "failed" /\ err' = "ValueError"
       ELSE pc' = "loop" /\ err' = ""
    /\ idx' = 1
    /\ args' = a
    /\ fs0' = fs
    /\ calls' = <<>>
    /\ writes' = <<>>
    /\ lookups' = <<>>
    /\ runs' = runs + 1
    /\ UNCHANGED <<fs, single, fontVars, sizeVars>>

\* One iteration of `for input_file in batch_files`.
BatchStep(env) ==
    /\ pc = "loop"
    /\ idx <= Len(files)
    /\ \E out \in {BatchIter(platform, fontfs, fs, files[idx], env)} :
          /\ fs' = out.fs
          /\ calls' = calls \o At(out.calls, idx)
          /\ writes' = writes \o At(out.writes, idx)
          /\ lookups' = lookups \o out.lookups
          /\ err' = IF Raised(out.status) THEN out.status ELSE err
          /\ IF Continue(out.status)
             THEN pc' = "loop" /\ idx' = idx + 1
             ELSE pc' = "failed" /\ idx' = idx
    /\ UNCHANGED <<fs0, args, files, single, runs, fontVars, sizeVars>>

\* The loop is exhausted: main returns.
BatchDone ==
    /\ pc = "loop"
    /\ idx > Len(files)
    /\ pc' = "done"
    /\ UNCHANGED <<fs, fs0, args, files, idx, err, calls, writes, lookups, single,
                   runs, fontVars, sizeVars>>

\* Numbers with a fraction (font_size, opacity, ..) are in hundredths.
Defaults ==
    [text |-> <<>>, position |-> <<"right", " ", "bottom">>,
     font_family |-> <<"z", ",", " ", "a">>, font_size |-> 100, opacity |-> 75,
     line_spacing |-> 20, shadow_offset |-> 4, shadow_blur_radius |-> 5,
     input_file |-> None, output_file |-> None, quality |-> 95,
     batch_files |-> <<>>]

\* The process ends: what the invocation held in memory is gone, the
\* directory stays.
Exit ==
    /\ pc \in {"done", "failed"}
    /\ pc' = "idle"
    /\ args' = Defaults
    /\ fs0' = fs
    /\ files' = <<>>
    /\ idx' = 0
    /\ err' = ""
    /\ calls' = <<>>
    /\ writes' = <<>>
    /\ lookups' = <<>>
    /\ UNCHANGED <<fs, single, runs, fontVars, sizeVars>>

----------------------------------------------------------------------------
(* Inputs: command lines and initial directories *)

Presets ==
    { [Defaults EXCEPT !.text = <<"x", "y">>],
      [Defaults EXCEPT !.text = <<"x">>, !.position = <<"left", " ", "top">>,
                       !.font_family = <<"a">>, !.font_size = 200,
                       !.opacity = 50, !.line_spacing = 30,
                       !.shadow_offset = 8, !.shadow_blur_radius = 10,
                       !.quality = 60],
      [Defaults EXCEPT !.text = <<"x">>, !.position = <<"middle">>],
      [Defaults EXCEPT !.text = <<"x">>, !.font_family = <<"z">>],
      Defaults }

SingleArgs ==
    { [p EXCEPT !.input_file = i, !.output_file = o] :
        p \in Presets, i \in {None, A, V, N}, o \in {None, A, V, O, Sidecar(A)} }

BatchLists == SeqsUpTo({A, V, N}, MaxBatch) \ {<<>>}

\* Trailing arguments alone, or with one of the options batch mode forbids;
\* '.' alone, or with --text.
BatchArgs ==
    { [p EXCEPT !.batch_files = b] :
        p \in { Defaults,
                [Defaults EXCEPT !.text = <<"x">>],
                [Defaults EXCEPT !.input_file = A],
                [Defaults EXCEPT !.output_file = O] },
        b \in BatchLists }
    \cup { [p EXCEPT !.batch_files = <<Dot>>] :
             p \in {Defaults, [Defaults EXCEPT !.text = <<"x">>]} }

\* The fonts installed, for the driver: family "a" in the first root.
MainFonts == << <<File(<<"a">>, ".ttf")>>, <<>> >>

\* A sidecar as an earlier single-file run with these options left it.
SidecarOf(a, output_file) ==
    SidecarFile(SidecarDict(Options(a), a.font_family, NoPath, output_file, a.quality))

Media == [p \in AllPaths |-> IF p \in {A, V} THEN Orig(p) ELSE Absent]

Preset1 == [Defaults EXCEPT !.text = <<"x", "y">>]

\* Directories main may be started in: the media, with the sidecar of a
\* file of an unsupported type that is itself not there; with sidecars, one
\* of them naming its own input as the output; with an output file already
\* there; with an empty JSON object as a sidecar.
InitDirs ==
    { [Media EXCEPT ![Sidecar(N)] = SidecarOf(Preset1, O)],
      [Media EXCEPT ![Sidecar(A)] = SidecarOf(Preset1, O),
                    ![Sidecar(V)] = SidecarOf(Preset1, V)],
      [Media EXCEPT ![O] = Orig(O),
                    ![Sidecar(V)] = SidecarOf(Preset1, O)],
      [Media EXCEPT ![Sidecar(A)] = SidecarOf(Preset1, O),
                    ![Sidecar(V)] = SidecarFile(<<>>)] }

----------------------------------------------------------------------------
(* Specifications *)

FontIdle == platform = "darwin" /\ fontfs = MainFonts /\ family = <<>> /\ fontResult = NoResult

SizeIdle ==
    /\ szImage = <<0, 0>>
    /\ szFont = <<>>
    /\ szFs = <<0, 0>>
    /\ szSize = <<FirstSize, FirstSize>>
    /\ szPc = <<"done", "done">>

MainIdle ==
    /\ fs = Media
    /\ fs0 = Media
    /\ pc = "idle"
    /\ args = Defaults
    /\ files = <<>>
    /\ idx = 0
    /\ err = ""
    /\ calls = <<>>
    /\ writes = <<>>
    /\ lookups = <<>>
    /\ single = [p \in Names |-> NoSingle]
    /\ runs = 0

\* The driver: invocations of main, one after the other, on one directory.
Init ==
    /\ platform \in Platforms
    /\ fontfs = MainFonts
    /\ family = <<>>
    /\ fontResult = NoResult
    /\ SizeIdle
    /\ fs \in InitDirs
    /\ fs0 = fs
    /\ pc = "idle"
    /\ args = Defaults
    /\ files = <<>>
    /\ idx = 0
    /\ err = ""
    /\ calls = <<>>
    /\ writes = <<>>
    /\ lookups = <<>>
    /\ single = [p \in Names |-> NoSingle]
    /\ runs = 0

Next ==
    \/ \E a \in SingleArgs, env \in Envs : Single(a, env)
    \/ \E a \in BatchArgs : BatchEnter(a)
    \/ \E env \in Envs : BatchStep(env)
    \/ BatchDone
    \/ Exit

Spec == Init /\ [][Next]_vars

\* The font locator: get_font on bounded inputs.
FontInit ==
    /\ platform \in Platforms
    /\ fontfs \in RootListings \X RootListings
    /\ family \in Families
    /\ fontResult = NoResult
    /\ SizeIdle
    /\ MainIdle

CallGetFont ==
    /\ fontResult = NoResult
    /\ fontResult' = get_font(platform, fontfs, family)
    /\ UNCHANGED <<platform, fontfs, family, sizeVars, mainVars>>

FontNext == CallGetFont

FontSpec == FontInit /\ [][FontNext]_vars

\* Font auto-sizing: the loop of add_watermark, run for two font_size values
\* on one image and one font.
FontHeights == [CandidateSizes -> 0..MaxHeight]

ImageSides == {25, 50}

FontSizes == (0 - 1)..(2 * FsDen)

SizeInit ==
    /\ szImage \in ImageSides \X ImageSides
    /\ szFont \in FontHeights
    /\ szFs \in FontSizes \X FontSizes
    /\ szSize = <<FirstSize, FirstSize>>
    /\ szPc = <<"loop", "loop">>
    /\ FontIdle
    /\ MainIdle

SizeNext == \E r \in 1..2 : SizeIter(r) /\ UNCHANGED <<fontVars, mainVars>>

SizeSpec == SizeInit /\ [][SizeNext]_vars

----------------------------------------------------------------------------
(* Claims *)

BatchMode == pc # "idle" /\ args.batch_files # <<>>
SingleMode == pc # "idle" /\ args.batch_files = <<>>

\* The file has a sidecar in the directory the invocation started in.
SidecarAtStart(f) == Exists(fs0, Append(f, "json"))

\* The output_file a well-formed sidecar of f names; None when there is none.
SidecarOutput(f) ==
    IF SidecarAtStart(f) /\ fs0[Append(f, "json")].kind = "sidecar"
       /\ \E i \in 1..Len(fs0[Append(f, "json")].json) :
             fs0[Append(f, "json")].json[i].key = "output_file"
    THEN Loads(fs0[Append(f, "json")].json)["output_file"]
    ELSE None

\* C1, as stated: whenever a job's input path equals its output path, main
\* fails, and at the failure the invocation has written no file at all.
C1_NothingWrittenByInvocation ==
    err = "SameFile" => pc = "failed" /\ writes = <<>>

\* C1, amended: no job ever runs with input = output: a single-mode run with
\* equal paths fails having written nothing, and in a batch run a file whose
\* sidecar names the file itself is never passed over; the batch fails at it
\* and the failing job has written nothing (earlier jobs may have).
C1_SameFileRefused ==
    /\ \A i \in 1..Len(calls) : calls[i].v.input # calls[i].v.output
    /\ SingleMode /\ args.input_file # None /\ args.input_file = args.output_file
          /\ args.text # <<>>
          => pc = "failed" /\ err = "SameFile" /\ writes = <<>> /\ fs = fs0
    /\ BatchMode
          => /\ \A k \in 1..(idx - 1) : k <= Len(files) => SidecarOutput(files[k]) # files[k]
             /\ pc = "done" => idx > Len(files)
    /\ err = "SameFile"
          => pc = "failed" /\ \A i \in 1..Len(writes) : writes[i].at # idx

\* C1's case: a batch run that failed on input = output after an earlier job
\* of the same run had written its output.
C1_Witness ==
    /\ BatchMode /\ err = "SameFile" /\ pc = "failed"
    /\ \E i \in 1..Len(writes) : writes[i].at < idx

\* C2: a single-mode run leaves a file that already exists at the output
\* path unchanged.
C2_NoClobber ==
    SingleMode /\ args.output_file # None /\ Exists(fs0, args.output_file)
        => fs[args.output_file] = fs0[args.output_file]

\* C3: a sidecar is created or changed only by a single-mode run, only after
\* its run_job returned successfully, and it is the sidecar of that run's
\* input; a failed run and a batch run leave every sidecar as it was.
C3_SidecarOnlyAfterSingleSuccess ==
    \A p \in Names :
        (fs[Sidecar(p)] # fs0[Sidecar(p)]
         \/ \E i \in 1..Len(writes) : writes[i].v.path = Sidecar(p))
        => /\ SingleMode
           /\ pc = "done"
           /\ p = args.input_file
           /\ Len(calls) = 1 /\ calls[1].v.status = "ok"
           /\ writes[Len(writes)].v = [path |-> Sidecar(p), kind |-> "sidecar"]
           /\ \A i \in 1..(Len(writes) - 1) : writes[i].v.path # Sidecar(p)

\* C3's case: a successful single-mode run has just written its sidecar.
C3_Witness ==
    /\ SingleMode /\ pc = "done"
    /\ fs[Sidecar(args.input_file)] # fs0[Sidecar(args.input_file)]

\* C4: a batch job on a file whose sidecar a successful single-mode run
\* wrote is called with that run's input, output, quality and options (the
\* seven style keys and no other) and with the font resolved from that run's
\* family string, with overwrite set instead of cleared; the sidecar holds
\* the family string.
C4_SidecarRoundTrip ==
    /\ \A i \in 1..Len(calls) :
          BatchMode /\ calls[i].v.input \in Names /\ single[calls[i].v.input].set
          => LET c == calls[i].v
                 s == single[calls[i].v.input]
             IN /\ c.input = s.call.input
                /\ c.output = s.call.output
                /\ c.quality = s.call.quality
                /\ c.font = get_font(platform, fontfs, s.family).path
                /\ c.font = s.call.font
                /\ DOMAIN c.options = StyleKeys
                /\ \A k \in StyleKeys : c.options[k] = s.call.options[k]
                /\ c.overwrite /\ ~s.call.overwrite
    /\ \A p \in Names :
          single[p].set
          => /\ fs[Sidecar(p)].kind = "sidecar"
             /\ \E i \in 1..Len(fs[Sidecar(p)].json) :
                   /\ fs[Sidecar(p)].json[i].key = "font_family"
                   /\ fs[Sidecar(p)].json[i].t = "str"
                   /\ fs[Sidecar(p)].json[i].s = single[p].family

\* C4's case: a batch job that ran to its end on a file with a sidecar from
\* an earlier single-mode run.
C4_Witness ==
    /\ BatchMode
    /\ \E i \in 1..Len(calls) :
          /\ calls[i].v.input \in Names
          /\ single[calls[i].v.input].set
          /\ calls[i].v.status = "ok"

\* C5: in batch mode the jobs are the listed files that have a sidecar, in
\* list order, each with overwrite=true; a file without a sidecar causes no
\* job, no error and no write; '.' alone stands for the directory's listing.
C5_BatchJobsAreSidecarFiles ==
    BatchMode =>
        /\ IF args.batch_files = <<Dot>>
           THEN /\ SeqToSet(files) = {p \in AllPaths : Exists(fs0, p)}
                /\ Len(files) = Cardinality({p \in AllPaths : Exists(fs0, p)})
           ELSE files = args.batch_files
        /\ \A i \in 1..Len(calls) :
              /\ calls[i].at \in 1..Len(files)
              /\ calls[i].v.input = files[calls[i].at]
              /\ SidecarAtStart(files[calls[i].at])
              /\ calls[i].v.overwrite
              /\ \A j \in 1..(i - 1) : calls[j].at < calls[i].at
        /\ \A i \in 1..Len(writes) :
              \E j \in 1..Len(calls) : calls[j].at = writes[i].at
        /\ pc \in {"loop", "done"}
              => \A k \in 1..(idx - 1) :
                    SidecarAtStart(files[k]) <=> \E j \in 1..Len(calls) : calls[j].at = k
        /\ pc = "done" => idx = Len(files) + 1 /\ err = ""
        /\ pc = "failed" /\ args.text = <<>> /\ args.input_file = None
              /\ args.output_file = None
              => SidecarAtStart(files[idx])

\* C5's case: a batch run that ended normally, having passed over a file
\* without a sidecar and run a job for one with a sidecar.
C5_Witness ==
    /\ BatchMode /\ pc = "done"
    /\ \E k \in 1..Len(files) : ~SidecarAtStart(files[k])
    /\ \E k \in 1..Len(files) : \E j \in 1..Len(calls) : k < calls[j].at

\* C6: without trailing arguments a run lacking text, input file or output
\* file, and with trailing arguments a run that sets one of them, fails with
\* a configuration error before any font lookup, job or file write.
C6_ModeConfigErrors ==
    /\ SingleMode /\ (args.text = <<>> \/ args.input_file = None
                      \/ args.output_file = None)
          => /\ pc = "failed" /\ err = "ValueError"
             /\ lookups = <<>> /\ calls = <<>> /\ writes = <<>> /\ fs = fs0
    /\ BatchMode /\ (args.text # <<>> \/ args.input_file # None
                     \/ args.output_file # None)
          => /\ pc = "failed" /\ err = "ValueError"
             /\ lookups = <<>> /\ calls = <<>> /\ writes = <<>> /\ fs = fs0
    /\ pc = "loop" => args.batch_files # <<>>
    /\ SingleMode => files = <<>>

\* C6's case: a run with trailing arguments and --output-file has failed.
C6_Witness ==
    BatchMode /\ args.output_file # None /\ pc = "failed"

\* C7: when run_job exits, the input image, the output image, the shadow
\* layer and the watermark layer it opened have all been released (closed,
\* or held by no variable any more).
C7_AllReleased ==
    \A i \in 1..Len(calls) :
        \A r \in {"input", "output", "shadow", "watermark"} :
            calls[i].v.res[r] # "open"

\* The font files below a directory.
RECURSIVE FilesUnder(_, _)
FilesUnder(listing, dirPath) ==
    UNION { IF e.kind = "file" THEN {Append(dirPath, e.name)}
            ELSE FilesUnder(e.children, Append(dirPath, e.name)) :
            e \in SeqToSet(listing) }

\* The font files of family `name` anywhere below root d.
FontsOf(d, name) ==
    {p \in FilesUnder(fontfs[d], <<search_dirs[d]>>) :
        p[Len(p)][1] = name /\ p[Len(p)][2] \in SeqToSet(search_exts)}

Listed == search_names(family)

MatchingNames == {n \in 1..Len(Listed) : \E d \in 1..2 : FontsOf(d, Listed[n]) # {}}

\* C8: get_font returns a font file of the earliest-listed family that
\* matches anywhere below any root, found in the first root that has that
\* family, and fails with the not-found error exactly when no family matches.
C8_FamilyPriority ==
    platform = "darwin" /\ fontResult # NoResult =>
        IF MatchingNames = {}
        THEN fontResult.status = "IOError"
        ELSE LET n == CHOOSE n \in MatchingNames : \A m \in MatchingNames : n <= m
                 d == CHOOSE d \in 1..2 :
                         /\ FontsOf(d, Listed[n]) # {}
                         /\ \A e \in 1..(d - 1) : FontsOf(e, Listed[n]) = {}
             IN /\ fontResult.status = "ok"
                /\ fontResult.path \in FontsOf(d, Listed[n])

\* C8's case: the family listed first matches in the second root only, a
\* family listed later matches in the first root, and get_font has returned.
C8_Witness ==
    /\ platform = "darwin" /\ fontResult.status = "ok"
    /\ Len(Listed) > 1
    /\ FontsOf(1, Listed[1]) = {} /\ FontsOf(2, Listed[1]) # {}
    /\ FontsOf(1, Listed[2]) # {}

\* C9: a batch run ends at the first iteration that raises: the error leaves
\* main, no later file is processed, and the outputs of the jobs completed
\* before are still there.
C9_BatchAbortsOnFirstFailure ==
    BatchMode =>
        /\ err # "" => pc = "failed"
        /\ \A i \in 1..Len(calls) :
              calls[i].v.status # "ok" => pc = "failed" /\ i = Len(calls)
                                           /\ err = calls[i].v.status
        /\ pc = "failed" =>
              /\ err # ""
              /\ \A i \in 1..Len(calls) : calls[i].at <= idx
              /\ \A i \in 1..Len(writes) : writes[i].at <= idx
              /\ \A i \in 1..Len(calls) :
                    calls[i].at < idx
                    => /\ calls[i].v.status = "ok"
                       /\ Exists(fs, calls[i].v.output)
                       /\ (\A j \in (i + 1)..Len(calls) :
                              calls[j].v.output # calls[i].v.output)
                          => fs[calls[i].v.output] = Watermarked(calls[i].v.input)

\* C9's case: a batch run failed after a completed job and before the end of
\* its list.
C9_Witness ==
    /\ BatchMode /\ pc = "failed"
    /\ idx < Len(files)
    /\ \E i \in 1..Len(calls) : calls[i].at < idx /\ calls[i].v.status = "ok"
    /\ \E k \in (idx + 1)..Len(files) : SidecarAtStart(files[k])

\* The threshold test of the loop, for run r at candidate size s.
Over(r, s) == szFont[s] * 25 * FsDen > Min(szImage[1], szImage[2]) * szFs[r]

\* C10: the size chosen is the first stepped size whose measured height
\* exceeds the threshold, and a larger font_size never gets a smaller one.
C10_AutoSizeMonotonic ==
    /\ \A r \in 1..2 :
          szPc[r] = "done"
          => /\ Over(r, szSize[r])
             /\ \A s \in CandidateSizes : s < szSize[r] => ~Over(r, s)
    /\ szPc[2] = "done" /\ szFs[1] <= szFs[2]
          => szPc[1] = "done" /\ szSize[1] <= szSize[2]

\* C10's case: both searches ended, the larger font_size at a larger size.
C10_Witness ==
    /\ szPc = <<"done", "done">>
    /\ szFs[1] < szFs[2]
    /\ FirstSize < szSize[1] /\ szSize[1] < szSize[2]

=============================================================================
